---- MODULE Spec2Model ----
\* Dual-battery ornament firmware: the failover controller (power.rs), the PVD
\* interrupt bridge with its single-slot signal (power.rs), the LED string
\* sequencer with its two D flip-flops (string_controller.rs) and the startup
\* sequence and tick loop of main (main.rs).
EXTENDS Integers, Sequences, FiniteSets, TLC

\* ---------------------------------------------------------------- bounds
\* Number of PVD handler runs explored.
MaxIrq == 3
\* Number of activate_next_string calls explored by the sequencer harness.
MaxTicks == 100

\* ------------------------------------------------------------- constants
\* Number of variants of ActiveString (the length of the LED cycle).
CycleLen == 4

VARIABLES
  mpc,            \* main(): [stmt, i] current statement and step inside it
  running,        \* executor: "main", "pwr" (power_monitor_task) or "idle"
  spc,            \* StringController method in progress: [op, i]
  str_ctrl,       \* StringController: red_flop, green_flop (pin levels), active_string
  latch_q,        \* Q output of the two SN74LVC1G74 latches
  pwr_ctrl,       \* PowerController: main_power_n, backup_power_n, state
  tpc,            \* power_monitor_task: [stmt, i]
  voltage_low,    \* power_monitor_task's local voltage_low
  PVD_SIGNAL,     \* Signal<bool>: <<>> or <<[val, id]>>
  regs,           \* RCC/PWR/EXTI/NVIC bits written by setup_pvd and PVD
  vdd_low,        \* environment: VDD is below the PVD threshold
  hpc,            \* PVD handler position: "idle", "read", "signal"
  irq_voltage_low,\* PVD handler's local voltage_low
  pvdReads,       \* history: values published by the PVD handler, in order
  consumed,       \* history: [val, id] values returned by PVD_SIGNAL.wait()
  initReads,      \* history: Len(pvdReads) when init_main_power returned
  nchanges,       \* history: number of changes of pwr_ctrl.state
  changes,        \* history: per change of pwr_ctrl.state, [id, reads]: the handler
                  \* run whose value caused it, and Len(pvdReads) when it happened
  ticks,          \* history: activate_next_string calls since reset()
  lastCall,       \* history: last StringController method called
  prevCall,       \* history: the method called before lastCall
  snap,           \* history: outward sequencer state when lastCall was entered
  armed,          \* history: per latch, "held", "released", "pulsed" or "pulsed_held"
  pulses          \* history: per latch, rising clock edges since lastCall was entered

vars == <<mpc, running, spc, str_ctrl, latch_q, pwr_ctrl, tpc, voltage_low,
          PVD_SIGNAL, regs, vdd_low, hpc, irq_voltage_low, pvdReads, consumed,
          initReads, nchanges, changes, ticks, lastCall, prevCall, snap, armed, pulses>>

ledVars == <<spc, str_ctrl, latch_q, ticks, lastCall, prevCall, snap, armed, pulses>>
pwrVars == <<pwr_ctrl, tpc, voltage_low, consumed, nchanges, changes>>
irqVars == <<hpc, irq_voltage_low, pvdReads>>

\* ------------------------------------------------------------- hardware
\* Pins are unconfigured ("Z") until Peripherals::new builds the Outputs.
Unconfigured == "Z"

\* SN74LVC1G74: PRE_N low forces Q high, CLR_N low forces Q low, otherwise a
\* rising edge of CLK latches D into Q and Q holds its value.
LatchQ(old, new, q) ==
  IF new.fpre_n = "Low" THEN "High"
  ELSE IF new.fclr_n = "Low" THEN "Low"
  ELSE IF old.fclk = "Low" /\ new.fclk = "High" THEN new.fdata
  ELSE q

\* PWR_CSR.PVDO: set while the detector is enabled and VDD is below threshold.
PVDO(r, low) == r.pvde /\ low

\* --------------------------------------------------- string_controller.rs
\* FlipFlop methods as their sequences of pin writes <<line, level>>.
release_reset_asserts_both == << <<"fclr_n", "Low">>, <<"fpre_n", "Low">> >>

release_reset == << <<"fclr_n", "High">>, <<"fpre_n", "High">> >>

clock_q_high_late_data == << <<"fclk", "High">>, <<"fdata", "High">>, <<"fclk", "Low">> >>

clock_q_high == << <<"fdata", "High">>, <<"fclk", "High">>, <<"fclk", "Low">> >>

clock_q_low_no_fall == << <<"fdata", "Low">>, <<"fclk", "High">> >>

clock_q_low == << <<"fdata", "Low">>, <<"fclk", "High">>, <<"fclk", "Low">> >>

\* A FlipFlop method applied to one flop of the controller: <<flop, line, level>>.
On(flop, writes) == [k \in 1..Len(writes) |-> <<flop, writes[k][1], writes[k][2]>>]

ActiveStringDefault == "GreenOff"

\* StringController::reset: the pin writes, then the state it assigns.
reset_keeps_state(active) ==
  [writes |-> On("red_flop", release_reset) \o On("green_flop", release_reset)
              \o On("red_flop", clock_q_low) \o On("green_flop", clock_q_low),
   active_string |-> active]

reset_no_green_clock(active) ==
  [writes |-> On("red_flop", release_reset) \o On("green_flop", release_reset)
              \o On("red_flop", clock_q_low),
   active_string |-> ActiveStringDefault]

reset(active) ==
  [writes |-> On("red_flop", release_reset) \o On("green_flop", release_reset)
              \o On("red_flop", clock_q_low) \o On("green_flop", clock_q_low),
   active_string |-> ActiveStringDefault]

\* StringController::activate_next_string: the match arm of the current state.
activate_next_string_skips_red_off(active) ==
  CASE active = "GreenOff" -> [writes |-> On("red_flop", clock_q_high), active_string |-> "Red"]
    [] active = "Red"      -> [writes |-> On("red_flop", clock_q_low), active_string |-> "Green"]
    [] active = "RedOff"   -> [writes |-> On("green_flop", clock_q_high), active_string |-> "Green"]
    [] active = "Green"    -> [writes |-> On("green_flop", clock_q_low), active_string |-> "GreenOff"]

activate_next_string_green_arm_clocks_red(active) ==
  CASE active = "GreenOff" -> [writes |-> On("red_flop", clock_q_high), active_string |-> "Red"]
    [] active = "Red"      -> [writes |-> On("red_flop", clock_q_low), active_string |-> "RedOff"]
    [] active = "RedOff"   -> [writes |-> On("green_flop", clock_q_high), active_string |-> "Green"]
    [] active = "Green"    -> [writes |-> On("red_flop", clock_q_low), active_string |-> "GreenOff"]

activate_next_string_red_stays_on(active) ==
  CASE active = "GreenOff" -> [writes |-> On("red_flop", clock_q_high), active_string |-> "Red"]
    [] active = "Red"      -> [writes |-> On("green_flop", clock_q_low), active_string |-> "RedOff"]
    [] active = "RedOff"   -> [writes |-> On("green_flop", clock_q_high), active_string |-> "Green"]
    [] active = "Green"    -> [writes |-> On("green_flop", clock_q_low), active_string |-> "GreenOff"]

activate_next_string(active) ==
  CASE active = "GreenOff" -> [writes |-> On("red_flop", clock_q_high), active_string |-> "Red"]
    [] active = "Red"      -> [writes |-> On("red_flop", clock_q_low), active_string |-> "RedOff"]
    [] active = "RedOff"   -> [writes |-> On("green_flop", clock_q_high), active_string |-> "Green"]
    [] active = "Green"    -> [writes |-> On("green_flop", clock_q_low), active_string |-> "GreenOff"]

\* The method body selected by spc.op.
SeqBody(op, active) ==
  IF op = "reset" THEN reset(active) ELSE activate_next_string(active)

Flops == {"red_flop", "green_flop"}

\* The clock line of a flop goes from low to high.
RisingEdge(old, new) == old.fclk = "Low" /\ new.fclk = "High"

\* Both asynchronous controls of a flop are de-asserted.
Released(ff) == ff.fpre_n = "High" /\ ff.fclr_n = "High"

\* History of one latch: held (preset or clear asserted), released (both
\* de-asserted, no clock pulse since), pulsed (clocked since the release),
\* pulsed_held (clocked while preset or clear was asserted).
ArmedAfter(a, old, new, line) ==
  IF RisingEdge(old, new) THEN (IF Released(new) THEN "pulsed" ELSE "pulsed_held")
  ELSE IF line \in {"fpre_n", "fclr_n"}
       THEN (IF Released(new) THEN "released" ELSE "held")
  ELSE a

\* Output::set_high / set_low on one line of a flop, and the latch's reaction.
SeqWrite(w) ==
  LET old == str_ctrl[w[1]]
      new == [old EXCEPT ![w[2]] = w[3]]
  IN /\ str_ctrl' = [str_ctrl EXCEPT ![w[1]] = new]
     /\ latch_q' = [latch_q EXCEPT ![w[1]] = LatchQ(old, new, latch_q[w[1]])]
     /\ armed' = [armed EXCEPT ![w[1]] = ArmedAfter(armed[w[1]], old, new, w[2])]
     /\ pulses' = [pulses EXCEPT ![w[1]] = IF RisingEdge(old, new) THEN @ + 1 ELSE @]

\* What the sequencer shows to the outside: state, latch outputs, line levels.
Outward == <<str_ctrl, latch_q>>

\* Entry into a StringController method.
SeqCall(op, t) ==
  /\ spc.op = "idle"
  /\ spc' = [op |-> op, i |-> 1]
  /\ ticks' = t
  /\ prevCall' = lastCall
  /\ lastCall' = op
  /\ snap' = Outward
  /\ pulses' = [f \in Flops |-> 0]
  /\ UNCHANGED <<str_ctrl, latch_q, armed>>

\* One step of the method in progress: the next pin write, or the final
\* assignment of active_string and the return.
SeqStep ==
  /\ spc.op # "idle"
  /\ hpc = "idle"
  /\ running = "main"
  /\ LET body == SeqBody(spc.op, str_ctrl.active_string)
     IN IF spc.i <= Len(body.writes)
        THEN /\ SeqWrite(body.writes[spc.i])
             /\ spc' = [spc EXCEPT !.i = spc.i + 1]
        ELSE /\ str_ctrl' = [str_ctrl EXCEPT !.active_string = body.active_string]
             /\ spc' = [op |-> "idle", i |-> 0]
             /\ UNCHANGED <<latch_q, armed, pulses>>
  /\ UNCHANGED <<mpc, running, ticks, lastCall, prevCall, snap, regs, vdd_low,
                 PVD_SIGNAL, initReads>>
  /\ UNCHANGED pwrVars
  /\ UNCHANGED irqVars

\* --------------------------------------------------------------- power.rs
PowerStateDefault == "MainPower"

\* PowerController methods as their sequences of pin writes <<line, level>>.
init_main_power == << <<"main_power_n", "Low">>, <<"backup_power_n", "High">> >>

switch_to_backup_break_first == << <<"main_power_n", "High">>, <<"backup_power_n", "Low">> >>

switch_to_backup_main_off_only == << <<"main_power_n", "High">> >>

switch_to_backup == << <<"backup_power_n", "Low">>, <<"main_power_n", "High">> >>

switch_to_main_keeps_backup == << <<"main_power_n", "Low">> >>

switch_to_main == << <<"main_power_n", "Low">>, <<"backup_power_n", "High">> >>

\* PowerController::power_transition: the pin writes of the selected arm and
\* the state assigned afterwards (nothing happens when low_voltage is false).
power_transition_forgets_state(low_voltage, st) ==
  IF low_voltage
  THEN CASE st = "MainPower"   -> [writes |-> switch_to_backup, state |-> st]
         [] st = "BackupPower" -> [writes |-> switch_to_main, state |-> st]
  ELSE [writes |-> << >>, state |-> st]

power_transition_ignores_flag(low_voltage, st) ==
  CASE st = "MainPower"   -> [writes |-> switch_to_backup, state |-> "BackupPower"]
    [] st = "BackupPower" -> [writes |-> switch_to_main, state |-> "MainPower"]

power_transition_reverts_on_recovery(low_voltage, st) ==
  IF low_voltage
  THEN CASE st = "MainPower"   -> [writes |-> switch_to_backup, state |-> "BackupPower"]
         [] st = "BackupPower" -> [writes |-> switch_to_main, state |-> "MainPower"]
  ELSE [writes |-> switch_to_main, state |-> "MainPower"]

power_transition_stays_on_backup(low_voltage, st) ==
  IF low_voltage
  THEN CASE st = "MainPower"   -> [writes |-> switch_to_backup, state |-> "BackupPower"]
         [] st = "BackupPower" -> [writes |-> << >>, state |-> "BackupPower"]
  ELSE [writes |-> << >>, state |-> st]

power_transition_fails_over_on_recovery(low_voltage, st) ==
  IF low_voltage
  THEN CASE st = "MainPower"   -> [writes |-> switch_to_backup, state |-> "BackupPower"]
         [] st = "BackupPower" -> [writes |-> switch_to_main, state |-> "MainPower"]
  ELSE CASE st = "MainPower"   -> [writes |-> switch_to_backup, state |-> "BackupPower"]
         [] st = "BackupPower" -> [writes |-> << >>, state |-> st]

power_transition(low_voltage, st) ==
  IF low_voltage
  THEN CASE st = "MainPower"   -> [writes |-> switch_to_backup, state |-> "BackupPower"]
         [] st = "BackupPower" -> [writes |-> switch_to_main, state |-> "MainPower"]
  ELSE [writes |-> << >>, state |-> st]

\* Output::set_high / set_low on one enable line of the controller.
PwrWrite(w) == pwr_ctrl' = [pwr_ctrl EXCEPT ![w[1]] = w[2]]

\* Signal::signal: store the value, replacing whatever the slot holds.
SignalPut_queues(sig, v) == Append(sig, v)

SignalPut(sig, v) == << v >>

\* Signal::wait, once a value is present: take it and leave the slot empty.
SignalTake_keeps(sig) == [value |-> sig[1], rest |-> sig]

SignalTake(sig) == [value |-> sig[1], rest |-> << >>]

\* EXTI line 16: an edge of PVDO selected in RTSR (rising) or FTSR (falling)
\* sets the pending bit while the line is enabled in IMR.
Pending(r, old, new) ==
  \/ r.exti_pr
  \/ r.exti_imr /\ r.exti_rtsr /\ ~old /\ new
  \/ r.exti_imr /\ r.exti_ftsr /\ old /\ ~new

\* setup_pvd: its register writes <<bit, value>>, in program order.
setup_pvd ==
  << <<"rcc_pwren", TRUE>>, <<"pls", "V2_7">>, <<"pvde", TRUE>>,
     <<"exti_imr", TRUE>>, <<"exti_rtsr", TRUE>>, <<"exti_ftsr", TRUE>>,
     <<"nvic_unmasked", TRUE>> >>

\* One register write, with the edge the write itself may cause on PVDO.
RegWrite(w) ==
  LET new == [regs EXCEPT ![w[1]] = w[2]]
  IN regs' = [new EXCEPT !.exti_pr =
                Pending(new, PVDO(regs, vdd_low), PVDO(new, vdd_low))]

\* The supply voltage crosses the PVD threshold (either direction).
VddCross ==
  /\ vdd_low' = ~vdd_low
  /\ regs' = [regs EXCEPT !.exti_pr =
                Pending(regs, PVDO(regs, vdd_low), PVDO(regs, ~vdd_low))]
  /\ UNCHANGED <<mpc, running, PVD_SIGNAL, initReads>>
  /\ UNCHANGED ledVars
  /\ UNCHANGED pwrVars
  /\ UNCHANGED irqVars

\* PVD handler entry (line pending, enabled and unmasked in the NVIC) and its
\* first statement: writing 1 to the line's PR bit clears the pending bit. The
\* handler runs to completion: no task takes a step while hpc # "idle".
PVD_clear_pending ==
  /\ hpc = "idle"
  /\ regs.exti_pr /\ regs.exti_imr /\ regs.nvic_unmasked
  /\ Len(pvdReads) < MaxIrq
  /\ regs' = [regs EXCEPT !.exti_pr = FALSE]
  /\ hpc' = "read"
  /\ UNCHANGED <<mpc, running, PVD_SIGNAL, vdd_low, initReads, irq_voltage_low, pvdReads>>
  /\ UNCHANGED ledVars
  /\ UNCHANGED pwrVars

\* PVD handler: read PWR_CSR.PVDO.
PVD_read ==
  /\ hpc = "read"
  /\ irq_voltage_low' = PVDO(regs, vdd_low)
  /\ hpc' = "signal"
  /\ UNCHANGED <<mpc, running, PVD_SIGNAL, regs, vdd_low, initReads, pvdReads>>
  /\ UNCHANGED ledVars
  /\ UNCHANGED pwrVars

PVD_signal_switches ==
  /\ hpc = "signal"
  /\ PVD_SIGNAL' = << [val |-> irq_voltage_low, id |-> Len(pvdReads) + 1] >>
  /\ pvdReads' = Append(pvdReads, irq_voltage_low)
  /\ irq_voltage_low' = FALSE
  /\ hpc' = "idle"
  /\ pwr_ctrl' = IF irq_voltage_low /\ pwr_ctrl.state = "MainPower"
                 THEN [main_power_n |-> "High", backup_power_n |-> "Low",
                       state |-> "BackupPower"]
                 ELSE pwr_ctrl
  /\ UNCHANGED <<mpc, running, regs, vdd_low, initReads, tpc, voltage_low,
                 consumed, nchanges, changes>>
  /\ UNCHANGED ledVars

\* PVD handler: PVD_SIGNAL.signal(voltage_low), then return (the local dies).
\* The published value carries the number of the handler run that read it.
PVD_signal ==
  /\ hpc = "signal"
  /\ PVD_SIGNAL' = SignalPut(PVD_SIGNAL, [val |-> irq_voltage_low, id |-> Len(pvdReads) + 1])
  /\ pvdReads' = Append(pvdReads, irq_voltage_low)
  /\ irq_voltage_low' = FALSE
  /\ hpc' = "idle"
  /\ UNCHANGED <<mpc, running, regs, vdd_low, initReads>>
  /\ UNCHANGED ledVars
  /\ UNCHANGED pwrVars

\* power_monitor_task: PVD_SIGNAL.wait() returns the pending value, either
\* when the idle executor polls the suspended task, or at once when the task
\* calls wait() while a value is present (it then does not yield).
TaskWake ==
  /\ running \in {"idle", "pwr"}
  /\ hpc = "idle"
  /\ tpc.stmt = "wait"
  /\ PVD_SIGNAL # << >>
  /\ LET t == SignalTake(PVD_SIGNAL)
     IN /\ voltage_low' = t.value.val
        /\ consumed' = Append(consumed, t.value)
        /\ PVD_SIGNAL' = t.rest
  /\ tpc' = [stmt |-> "power_transition", i |-> 1]
  /\ running' = "pwr"
  /\ UNCHANGED <<mpc, pwr_ctrl, nchanges, changes, regs, vdd_low, initReads>>
  /\ UNCHANGED ledVars
  /\ UNCHANGED irqVars

\* power_monitor_task: one step of pwr_ctrl.power_transition(voltage_low): the
\* next pin write, or the assignment of state and the return to wait(), where
\* the task suspends unless a value is present (the local voltage_low dies).
TaskStep ==
  /\ running = "pwr"
  /\ hpc = "idle"
  /\ tpc.stmt = "power_transition"
  /\ LET body == power_transition(voltage_low, pwr_ctrl.state)
     IN IF tpc.i <= Len(body.writes)
        THEN /\ PwrWrite(body.writes[tpc.i])
             /\ tpc' = [tpc EXCEPT !.i = tpc.i + 1]
             /\ UNCHANGED <<running, voltage_low, nchanges, changes>>
        ELSE /\ pwr_ctrl' = [pwr_ctrl EXCEPT !.state = body.state]
             /\ nchanges' = IF body.state # pwr_ctrl.state THEN nchanges + 1 ELSE nchanges
             /\ changes' = IF body.state # pwr_ctrl.state
                            THEN Append(changes, [id |-> consumed[Len(consumed)].id,
                                                  reads |-> Len(pvdReads)])
                            ELSE changes
             /\ tpc' = [stmt |-> "wait", i |-> 0]
             /\ voltage_low' = FALSE
             /\ running' = IF PVD_SIGNAL = << >> THEN "idle" ELSE "pwr"
  /\ UNCHANGED <<mpc, consumed, PVD_SIGNAL, regs, vdd_low, initReads>>
  /\ UNCHANGED ledVars
  /\ UNCHANGED irqVars

\* ------------------------------------------------------ hardware.rs, main.rs
\* Peripherals::new: the levels the Outputs are constructed with.
NewFlipFlop == [fpre_n |-> "Low", fclr_n |-> "High", fdata |-> "Low", fclk |-> "Low"]

NewStringController ==
  [red_flop |-> NewFlipFlop, green_flop |-> NewFlipFlop,
   active_string |-> ActiveStringDefault]

NewPowerController ==
  [main_power_n |-> "Low", backup_power_n |-> "High", state |-> PowerStateDefault]

\* The latch outputs once the lines carry their construction levels.
NewLatchQ(q) ==
  [f \in {"red_flop", "green_flop"} |-> LatchQ(NewFlipFlop, NewFlipFlop, q[f])]

\* main(): its statements in program order; the last two form the loop.
MainOrder_pvd_after_reset ==
  << "boot_wait", "Peripherals_new", "init_main_power", "reset", "setup_pvd",
     "spawn", "activate_next_string", "sleep" >>

MainOrder_wait_after_spawn ==
  << "setup_pvd", "Peripherals_new", "spawn", "boot_wait", "init_main_power",
     "reset", "activate_next_string", "sleep" >>

MainOrder ==
  << "boot_wait", "setup_pvd", "Peripherals_new", "init_main_power", "reset",
     "spawn", "activate_next_string", "sleep" >>

StmtIndex(s) == CHOOSE k \in 1..Len(MainOrder) : MainOrder[k] = s

\* The statement executed after s.
NextStmt_runs_once(s) ==
  IF s = "sleep" THEN "sleep" ELSE MainOrder[StmtIndex(s) + 1]

NextStmt(s) ==
  IF s = "sleep" THEN "activate_next_string" ELSE MainOrder[StmtIndex(s) + 1]

Goto(s) == [stmt |-> s, i |-> 1]

\* main() can take a step: it is the task being polled and no handler runs.
MainRuns(s) == running = "main" /\ hpc = "idle" /\ mpc.stmt = s

\* Timer::after_secs(..).await: main suspends.
MainAwait ==
  /\ \E s \in {"boot_wait", "sleep"} : MainRuns(s)
  /\ mpc.i = 1
  /\ mpc' = [mpc EXCEPT !.i = 2]
  /\ running' = "idle"
  /\ UNCHANGED <<PVD_SIGNAL, regs, vdd_low, initReads>>
  /\ UNCHANGED ledVars
  /\ UNCHANGED pwrVars
  /\ UNCHANGED irqVars

\* The timer main sleeps on expires: the time driver wakes main's waker.
TimerExpire ==
  /\ mpc.stmt \in {"boot_wait", "sleep"}
  /\ mpc.i = 2
  /\ mpc' = [mpc EXCEPT !.i = 3]
  /\ UNCHANGED <<running, PVD_SIGNAL, regs, vdd_low, initReads>>
  /\ UNCHANGED ledVars
  /\ UNCHANGED pwrVars
  /\ UNCHANGED irqVars

\* The executor is idle and polls main, whose timer has expired.
MainWake ==
  /\ running = "idle"
  /\ hpc = "idle"
  /\ mpc.stmt \in {"boot_wait", "sleep"}
  /\ mpc.i = 3
  /\ mpc' = Goto(NextStmt(mpc.stmt))
  /\ running' = "main"
  /\ UNCHANGED <<PVD_SIGNAL, regs, vdd_low, initReads>>
  /\ UNCHANGED ledVars
  /\ UNCHANGED pwrVars
  /\ UNCHANGED irqVars

\* setup_pvd(): one register write per step.
MainSetupPvd ==
  /\ MainRuns("setup_pvd")
  /\ RegWrite(setup_pvd[mpc.i])
  /\ mpc' = IF mpc.i < Len(setup_pvd) THEN [mpc EXCEPT !.i = mpc.i + 1]
            ELSE Goto(NextStmt(mpc.stmt))
  /\ UNCHANGED <<running, PVD_SIGNAL, vdd_low, initReads>>
  /\ UNCHANGED ledVars
  /\ UNCHANGED pwrVars
  /\ UNCHANGED irqVars

\* Peripherals::new(p): builds both controllers. No other code reads a pin
\* while the Outputs are being built, so the construction is one step.
MainPeripheralsNew ==
  /\ MainRuns("Peripherals_new")
  /\ str_ctrl' = NewStringController
  /\ latch_q' = NewLatchQ(latch_q)
  /\ pwr_ctrl' = NewPowerController
  /\ mpc' = Goto(NextStmt(mpc.stmt))
  /\ UNCHANGED <<running, PVD_SIGNAL, regs, vdd_low, initReads>>
  /\ UNCHANGED <<spc, ticks, lastCall, prevCall, snap, armed, pulses>>
  /\ UNCHANGED <<tpc, voltage_low, consumed, nchanges, changes>>
  /\ UNCHANGED irqVars

\* peripherals.pwr_ctrl.init_main_power(): one pin write per step.
MainInitMainPower ==
  /\ MainRuns("init_main_power")
  /\ PwrWrite(init_main_power[mpc.i])
  /\ IF mpc.i < Len(init_main_power)
     THEN /\ mpc' = [mpc EXCEPT !.i = mpc.i + 1]
          /\ UNCHANGED initReads
     ELSE /\ mpc' = Goto(NextStmt(mpc.stmt))
          /\ initReads' = Len(pvdReads)
  /\ UNCHANGED <<running, PVD_SIGNAL, regs, vdd_low>>
  /\ UNCHANGED ledVars
  /\ UNCHANGED <<tpc, voltage_low, consumed, nchanges, changes>>
  /\ UNCHANGED irqVars

\* peripherals.str_ctrl.reset() / activate_next_string(): the call.
MainCallSeq ==
  /\ \E s \in {"reset", "activate_next_string"} : MainRuns(s)
  /\ mpc.i = 1
  /\ SeqCall(mpc.stmt, IF mpc.stmt = "reset" THEN 0 ELSE (ticks + 1) % CycleLen)
  /\ mpc' = [mpc EXCEPT !.i = 2]
  /\ UNCHANGED <<running, PVD_SIGNAL, regs, vdd_low, initReads>>
  /\ UNCHANGED pwrVars
  /\ UNCHANGED irqVars

\* The StringController method has returned to main.
MainReturnSeq ==
  /\ \E s \in {"reset", "activate_next_string"} : MainRuns(s)
  /\ mpc.i = 2
  /\ spc.op = "idle"
  /\ mpc' = Goto(NextStmt(mpc.stmt))
  /\ UNCHANGED <<running, PVD_SIGNAL, regs, vdd_low, initReads>>
  /\ UNCHANGED ledVars
  /\ UNCHANGED pwrVars
  /\ UNCHANGED irqVars

\* spawner.spawn(power_monitor_task(peripherals.pwr_ctrl)).
MainSpawn ==
  /\ MainRuns("spawn")
  /\ tpc' = [stmt |-> "wait", i |-> 0]
  /\ mpc' = Goto(NextStmt(mpc.stmt))
  /\ UNCHANGED <<running, PVD_SIGNAL, regs, vdd_low, initReads>>
  /\ UNCHANGED ledVars
  /\ UNCHANGED <<pwr_ctrl, voltage_low, consumed, nchanges, changes>>
  /\ UNCHANGED irqVars

\* ------------------------------------------------------------ the firmware
NoStringController ==
  [red_flop |-> [fpre_n |-> Unconfigured, fclr_n |-> Unconfigured,
                 fdata |-> Unconfigured, fclk |-> Unconfigured],
   green_flop |-> [fpre_n |-> Unconfigured, fclr_n |-> Unconfigured,
                   fdata |-> Unconfigured, fclk |-> Unconfigured],
   active_string |-> "Uninit"]

NoPowerController ==
  [main_power_n |-> Unconfigured, backup_power_n |-> Unconfigured, state |-> "Uninit"]

ResetRegs ==
  [rcc_pwren |-> FALSE, pls |-> "V1_9", pvde |-> FALSE, exti_imr |-> FALSE,
   exti_rtsr |-> FALSE, exti_ftsr |-> FALSE, exti_pr |-> FALSE,
   nvic_unmasked |-> FALSE]

InitHistory ==
  /\ pvdReads = << >>
  /\ consumed = << >>
  /\ initReads = 0
  /\ nchanges = 0
  /\ changes = << >>
  /\ ticks = 0
  /\ lastCall = "none"
  /\ prevCall = "none"
  /\ snap = << >>
  /\ armed = [f \in Flops |-> "held"]
  /\ pulses = [f \in Flops |-> 0]

\* Entry of main(): nothing is constructed, the latch outputs are whatever the
\* unpowered-up latches show, the supply may be on either side of the threshold.
Init ==
  /\ mpc = Goto(MainOrder[1])
  /\ running = "main"
  /\ spc = [op |-> "idle", i |-> 0]
  /\ str_ctrl = NoStringController
  /\ latch_q \in [{"red_flop", "green_flop"} -> {"Low", "High"}]
  /\ pwr_ctrl = NoPowerController
  /\ tpc = [stmt |-> "unspawned", i |-> 0]
  /\ voltage_low = FALSE
  /\ PVD_SIGNAL = << >>
  /\ regs = ResetRegs
  /\ vdd_low \in BOOLEAN
  /\ hpc = "idle"
  /\ irq_voltage_low = FALSE
  /\ InitHistory

Next ==
  \/ MainAwait
  \/ TimerExpire
  \/ MainWake
  \/ MainSetupPvd
  \/ MainPeripheralsNew
  \/ MainInitMainPower
  \/ MainCallSeq
  \/ MainReturnSeq
  \/ MainSpawn
  \/ SeqStep
  \/ TaskWake
  \/ TaskStep
  \/ VddCross
  \/ PVD_clear_pending
  \/ PVD_read
  \/ PVD_signal

Spec == Init /\ [][Next]_vars

\* ------------------------------------------- the firmware, run for ever
\* The same program with the history variables pvdReads, consumed, nchanges and
\* changes left at their initial values, so that the handler can run any number of
\* times: the four actions that record history, without the recording.
LivePVD_clear_pending ==
  /\ hpc = "idle"
  /\ regs.exti_pr /\ regs.exti_imr /\ regs.nvic_unmasked
  /\ regs' = [regs EXCEPT !.exti_pr = FALSE]
  /\ hpc' = "read"
  /\ UNCHANGED <<mpc, running, PVD_SIGNAL, vdd_low, initReads, irq_voltage_low, pvdReads>>
  /\ UNCHANGED ledVars
  /\ UNCHANGED pwrVars

LivePVD_signal_clears_late ==
  /\ hpc = "signal"
  /\ PVD_SIGNAL' = SignalPut(PVD_SIGNAL, [val |-> irq_voltage_low, id |-> 1])
  /\ regs' = [regs EXCEPT !.exti_pr = FALSE]
  /\ irq_voltage_low' = FALSE
  /\ hpc' = "idle"
  /\ UNCHANGED <<mpc, running, vdd_low, initReads, pvdReads>>
  /\ UNCHANGED ledVars
  /\ UNCHANGED pwrVars

LivePVD_signal ==
  /\ hpc = "signal"
  /\ PVD_SIGNAL' = SignalPut(PVD_SIGNAL, [val |-> irq_voltage_low, id |-> 1])
  /\ irq_voltage_low' = FALSE
  /\ hpc' = "idle"
  /\ UNCHANGED <<mpc, running, regs, vdd_low, initReads, pvdReads>>
  /\ UNCHANGED ledVars
  /\ UNCHANGED pwrVars

LiveTaskWake ==
  /\ running \in {"idle", "pwr"}
  /\ hpc = "idle"
  /\ tpc.stmt = "wait"
  /\ PVD_SIGNAL # << >>
  /\ LET t == SignalTake(PVD_SIGNAL)
     IN /\ voltage_low' = t.value.val
        /\ PVD_SIGNAL' = t.rest
  /\ tpc' = [stmt |-> "power_transition", i |-> 1]
  /\ running' = "pwr"
  /\ UNCHANGED <<mpc, pwr_ctrl, consumed, nchanges, changes, regs, vdd_low, initReads>>
  /\ UNCHANGED ledVars
  /\ UNCHANGED irqVars

LiveTaskStep ==
  /\ running = "pwr"
  /\ hpc = "idle"
  /\ tpc.stmt = "power_transition"
  /\ LET body == power_transition(voltage_low, pwr_ctrl.state)
     IN IF tpc.i <= Len(body.writes)
        THEN /\ PwrWrite(body.writes[tpc.i])
             /\ tpc' = [tpc EXCEPT !.i = tpc.i + 1]
             /\ UNCHANGED <<running, voltage_low>>
        ELSE /\ pwr_ctrl' = [pwr_ctrl EXCEPT !.state = body.state]
             /\ tpc' = [stmt |-> "wait", i |-> 0]
             /\ voltage_low' = FALSE
             /\ running' = IF PVD_SIGNAL = << >> THEN "idle" ELSE "pwr"
  /\ UNCHANGED <<mpc, consumed, nchanges, changes, PVD_SIGNAL, regs, vdd_low, initReads>>
  /\ UNCHANGED ledVars
  /\ UNCHANGED irqVars

\* The steps main() takes while it is the task being polled.
MainStep ==
  \/ MainAwait
  \/ MainSetupPvd
  \/ MainPeripheralsNew
  \/ MainInitMainPower
  \/ MainCallSeq
  \/ MainReturnSeq
  \/ MainSpawn
  \/ SeqStep

LiveNext ==
  \/ MainStep
  \/ TimerExpire
  \/ MainWake
  \/ LiveTaskWake
  \/ LiveTaskStep
  \/ VddCross
  \/ LivePVD_clear_pending
  \/ PVD_read
  \/ LivePVD_signal

\* Scheduling. A running timer expires. The executor polls every woken task
\* (strong fairness: a poll that is possible again and again happens). Task
\* code and the handler advance while nothing preempts them (weak fairness: a
\* handler that is re-entered again and again keeps task code from running).
\* A pending unmasked interrupt is taken and its handler runs to its end. The
\* supply voltage is free to cross the threshold, or never to.
LiveFairness ==
  /\ WF_vars(TimerExpire)
  /\ SF_vars(MainWake)
  /\ SF_vars(LiveTaskWake)
  /\ WF_vars(MainStep)
  /\ WF_vars(LiveTaskStep)
  /\ WF_vars(LivePVD_clear_pending)
  /\ WF_vars(PVD_read)
  /\ WF_vars(LivePVD_signal)

LiveSpec == Init /\ [][LiveNext]_vars /\ LiveFairness

\* ------------------------------------------------- the sequencer on its own
\* A StringController as Peripherals::new builds it, driven by any sequence
\* of calls of its two public methods that starts with reset().
InitSeq ==
  /\ mpc = Goto("harness")
  /\ running = "main"
  /\ spc = [op |-> "idle", i |-> 0]
  /\ str_ctrl = NewStringController
  /\ latch_q \in {NewLatchQ(q) : q \in [{"red_flop", "green_flop"} -> {"Low", "High"}]}
  /\ pwr_ctrl = NewPowerController
  /\ tpc = [stmt |-> "unspawned", i |-> 0]
  /\ voltage_low = FALSE
  /\ PVD_SIGNAL = << >>
  /\ regs = ResetRegs
  /\ vdd_low = FALSE
  /\ hpc = "idle"
  /\ irq_voltage_low = FALSE
  /\ InitHistory

HarnessFrame ==
  /\ UNCHANGED <<mpc, running, PVD_SIGNAL, regs, vdd_low, initReads>>
  /\ UNCHANGED pwrVars
  /\ UNCHANGED irqVars

CallReset ==
  /\ SeqCall("reset", 0)
  /\ HarnessFrame

CallActivateNextString ==
  /\ lastCall # "none"
  /\ ticks < MaxTicks
  /\ SeqCall("activate_next_string", ticks + 1)
  /\ HarnessFrame

NextSeq ==
  \/ CallReset
  \/ CallActivateNextString
  \/ SeqStep

SpecSeq == InitSeq /\ [][NextSeq]_vars

\* ------------------------------------------------------------- properties
\* The statements of main() before s have all completed.
Done(s) == StmtIndex(mpc.stmt) > StmtIndex(s)

\* main() has reached statement s.
Started(s) == StmtIndex(mpc.stmt) >= StmtIndex(s)

Asserted(line) == pwr_ctrl[line] = "Low"

NumTrue(seq) == Cardinality({k \in DOMAIN seq : seq[k].val})

AllTrue(seq) == \A k \in DOMAIN seq : seq[k].val

\* Every published value has been consumed and acted on.
Quiescent == hpc = "idle" /\ PVD_SIGNAL = << >> /\ tpc.stmt = "wait"

\* C1 scenario: no handler ran before init_main_power returned, then three
\* handler runs read low, recovered, low, and all published values are consumed.
C1_Scenario ==
  /\ Quiescent
  /\ initReads = 0
  /\ pvdReads = << TRUE, FALSE, TRUE >>

\* C1 as stated: the low / recovered / low scenario always ends in BackupPower.
C1_Original == C1_Scenario => pwr_ctrl.state = "BackupPower"

\* C1 amended: the low / recovered / low scenario ends in BackupPower exactly
\* when one low value was consumed (the other was overwritten in the slot) and
\* in MainPower when both were; with every value consumed it ends in MainPower.
C1_Amended ==
  C1_Scenario =>
    /\ pwr_ctrl.state = "BackupPower" <=> NumTrue(consumed) = 1
    /\ pwr_ctrl.state = "MainPower" <=> NumTrue(consumed) = 2
    /\ Len(consumed) = 3 => pwr_ctrl.state = "MainPower"

C1_Witness ==
  /\ C1_Scenario
  /\ Len(consumed) = 3
  /\ pwr_ctrl.state = "MainPower"

\* C2 as stated: the PVD interrupt is unmasked, and its handler runs, only
\* after reset() and init_main_power() have completed.
C2_Original ==
  (regs.nvic_unmasked \/ hpc # "idle") => Done("reset") /\ Done("init_main_power")

\* C2 amended: the PVD interrupt is unmasked before init_main_power() and
\* reset() start, so the handler can run before them; power_monitor_task, which
\* acts on what the handler publishes, exists only after both have completed.
C2_Amended ==
  /\ Started("init_main_power") \/ Started("reset") => regs.nvic_unmasked
  /\ tpc.stmt # "unspawned" => Done("reset") /\ Done("init_main_power")

C2_Witness ==
  /\ hpc = "signal"
  /\ mpc.stmt = "init_main_power"
  /\ ~Done("reset")

\* C3: from init_main_power onward at least one enable line is asserted in
\* every state, and a step that de-asserts one enable line starts from a state
\* in which the other line is already asserted.
C3_MakeBeforeBreak ==
  /\ [](Done("init_main_power") =>
          Asserted("main_power_n") \/ Asserted("backup_power_n"))
  /\ [][/\ (Asserted("main_power_n") /\ ~Asserted("main_power_n")')
              => Asserted("backup_power_n")
        /\ (Asserted("backup_power_n") /\ ~Asserted("backup_power_n")')
              => Asserted("main_power_n")]_vars

C3_Witness ==
  /\ tpc.stmt = "power_transition"
  /\ Asserted("main_power_n") /\ Asserted("backup_power_n")
  /\ hpc = "read"

\* C4: after n calls of power_transition(true), and none of
\* power_transition(false), the state is MainPower for even n, BackupPower for odd n.
C4_Parity ==
  (tpc.stmt = "wait" /\ AllTrue(consumed)) =>
    pwr_ctrl.state = IF Len(consumed) % 2 = 0 THEN "MainPower" ELSE "BackupPower"

C4_Witness ==
  /\ tpc.stmt = "wait"
  /\ AllTrue(consumed)
  /\ Len(consumed) = 3
  /\ pwr_ctrl.state = "BackupPower"

\* C5: no step taken while power_transition(false) executes changes the
\* state or either enable line.
C5_RecoveredNoOp ==
  [][(tpc.stmt = "power_transition" /\ ~voltage_low) => pwr_ctrl' = pwr_ctrl]_vars

C5_Witness ==
  /\ tpc.stmt = "wait"
  /\ Len(consumed) = 3
  /\ consumed[1].val /\ ~consumed[2].val /\ ~consumed[3].val
  /\ pwr_ctrl.state = "BackupPower"
  /\ Asserted("backup_power_n") /\ ~Asserted("main_power_n")

\* The LED cycle as the specification lists it.
Cycle == << "GreenOff", "Red", "RedOff", "Green" >>

\* C6: after n calls of activate_next_string following reset() the state is
\* the element n mod 4 of the cycle.
C6_Cycle ==
  (spc.op = "idle" /\ lastCall # "none") =>
    str_ctrl.active_string = Cycle[(ticks % CycleLen) + 1]

C6_Witness ==
  /\ spc.op = "idle"
  /\ ticks = 100
  /\ str_ctrl.active_string = "GreenOff"

\* C7: three ticks after reset() the red latch output is low, the green one
\* high and the state Green.
C7_ThreeTicks ==
  (spc.op = "idle" /\ ticks = 3) =>
    /\ latch_q.red_flop = "Low"
    /\ latch_q.green_flop = "High"
    /\ str_ctrl.active_string = "Green"

C7_Witness ==
  /\ spc.op = "idle"
  /\ lastCall = "activate_next_string"
  /\ ticks = 3
  /\ latch_q.green_flop = "High"

\* C8: reset() returns with state GreenOff and both latch outputs low from
\* wherever it was called, and a second reset() in a row changes nothing outward.
C8_ResetIdempotent ==
  (spc.op = "idle" /\ lastCall = "reset") =>
    /\ str_ctrl.active_string = ActiveStringDefault
    /\ latch_q.red_flop = "Low" /\ latch_q.green_flop = "Low"
    /\ prevCall = "reset" => Outward = snap

C8_Witness ==
  /\ spc.op = "idle"
  /\ lastCall = "reset"
  /\ prevCall = "reset"
  /\ Outward = snap

\* C9: the slot holds at most one value; a wait returns the value of the
\* latest handler run and empties the slot, and no run's value is returned twice.
C9_SingleSlot ==
  /\ [](Len(PVD_SIGNAL) <= 1)
  /\ [](\A j, k \in DOMAIN consumed : j < k => consumed[j].id < consumed[k].id)
  /\ [][consumed' # consumed =>
          /\ consumed'[Len(consumed')].id = Len(pvdReads)
          /\ voltage_low' = pvdReads[Len(pvdReads)]
          /\ PVD_SIGNAL' = << >>
          /\ Len(consumed') = Len(consumed) + 1]_vars

C9_Witness ==
  /\ tpc.stmt = "power_transition"
  /\ consumed # << >>
  /\ consumed[Len(consumed)].id = 3
  /\ \A k \in DOMAIN consumed : consumed[k].id # 2
  /\ pvdReads[2] # pvdReads[3]
  /\ Done("spawn")
  /\ initReads = 0

\* C10 as stated: two consecutive published low values give two state changes.
C10_Original ==
  (Quiescent /\ initReads = 0 /\ pvdReads = << TRUE, TRUE >>) => nchanges = 2

\* C10 amended: two consecutive low values consumed by power_monitor_task
\* give two state changes, alternating; a low value overwritten before it is
\* consumed gives none.
C10_Amended ==
  tpc.stmt = "wait" =>
    /\ nchanges = NumTrue(consumed)
    /\ pwr_ctrl.state = IF nchanges % 2 = 0 THEN "MainPower" ELSE "BackupPower"
    /\ (Quiescent /\ pvdReads = << TRUE, TRUE >>) => nchanges = Len(consumed)

C10_Witness ==
  /\ Quiescent
  /\ initReads = 0
  /\ pvdReads = << TRUE, TRUE >>
  /\ Len(consumed) = 2
  /\ nchanges = 2
  /\ pwr_ctrl.state = "MainPower"

\* C11: the first tick (activate_next_string) and the first voltage event
\* acted on (power_transition) come after both reset() and init_main_power()
\* have returned, also when the PVD handler has run during startup.
C11_InitBeforeService ==
  (\/ lastCall = "activate_next_string"
   \/ mpc.stmt = "activate_next_string"
   \/ tpc.stmt = "power_transition"
   \/ consumed # << >>
   \/ nchanges > 0)
    => /\ Done("reset") /\ Done("init_main_power")
       /\ lastCall # "none"
       /\ initReads <= Len(pvdReads)

C11_Witness ==
  /\ tpc.stmt = "power_transition"
  /\ initReads >= 1
  /\ consumed[1].id <= initReads
  /\ lastCall = "activate_next_string"

\* C12: a wait returns only when the slot holds a value, returns exactly that
\* value and empties the slot; power_transition runs at most once per
\* published value and the task leaves wait() only by such a return.
C12_ConsumedOnce ==
  /\ [](Len(consumed) <= Len(pvdReads))
  /\ [](tpc.stmt = "power_transition" =>
          consumed # << >> /\ voltage_low = consumed[Len(consumed)].val)
  /\ [][(tpc.stmt = "wait" /\ tpc'.stmt # "wait") =>
          /\ PVD_SIGNAL # << >>
          /\ consumed' = Append(consumed, PVD_SIGNAL[1])
          /\ PVD_SIGNAL' = << >>]_vars
  /\ [][consumed' # consumed => (tpc.stmt = "wait" /\ tpc'.stmt = "power_transition")]_vars

C12_Witness ==
  /\ Quiescent
  /\ Len(pvdReads) = 2
  /\ Len(consumed) = 2
  /\ consumed[1].id = 1 /\ consumed[2].id = 2

\* C14: no step of the PVD handler changes the PowerState or an enable line;
\* once the controller is built they change only in a step of
\* power_transition(true) taken by power_monitor_task.
C14_HandlerFrame ==
  /\ [][(hpc # "idle" \/ hpc' # "idle") => pwr_ctrl' = pwr_ctrl]_vars
  /\ [][(pwr_ctrl' # pwr_ctrl /\ pwr_ctrl.state # "Uninit") =>
          /\ tpc.stmt = "power_transition" /\ voltage_low
          /\ running = "pwr"
          /\ hpc = "idle" /\ hpc' = "idle"]_vars

C14_Witness ==
  /\ hpc = "idle"
  /\ tpc.stmt = "power_transition" /\ tpc.i = 2
  /\ PVD_SIGNAL # << >>
  /\ PVD_SIGNAL[1].id = Len(consumed) + 1

\* The data value the method in progress (or last run) clocks into a latch.
ExpectedData ==
  IF lastCall = "reset" THEN "Low"
  ELSE IF snap[1].active_string \in {"GreenOff", "RedOff"} THEN "High"
  ELSE "Low"

\* C16: the data line holds the method's value before the rising clock edge
\* and through it, the edge comes with preset and clear de-asserted and latches
\* that value into Q; the method returns with the clock low and Q equal to the
\* data written, after exactly one rising edge per clock_q_high / clock_q_low.
C16_ClockPulse ==
  /\ [][\A f \in Flops :
          RisingEdge(str_ctrl[f], str_ctrl'[f]) =>
            /\ str_ctrl[f].fdata = ExpectedData
            /\ str_ctrl'[f].fdata = str_ctrl[f].fdata
            /\ Released(str_ctrl[f])
            /\ latch_q'[f] = ExpectedData]_vars
  /\ []((spc.op = "idle" /\ lastCall # "none") =>
          \A f \in Flops : str_ctrl[f].fclk = "Low" /\ latch_q[f] = str_ctrl[f].fdata)
  /\ []((spc.op = "idle" /\ lastCall = "activate_next_string") =>
          pulses.red_flop + pulses.green_flop = 1)
  /\ []((spc.op = "idle" /\ lastCall = "reset") =>
          pulses.red_flop = 1 /\ pulses.green_flop = 1)

C16_Witness ==
  /\ spc.op = "idle"
  /\ lastCall = "activate_next_string"
  /\ snap[1].active_string = "GreenOff"
  /\ str_ctrl.red_flop.fdata = "High" /\ str_ctrl.red_flop.fclk = "Low"
  /\ latch_q.red_flop = "High"
  /\ pulses.red_flop = 1

Table(before) ==
  CASE before = "GreenOff" -> [bank |-> "red_flop", level |-> "High", next |-> "Red"]
    [] before = "Red"      -> [bank |-> "red_flop", level |-> "Low", next |-> "RedOff"]
    [] before = "RedOff"   -> [bank |-> "green_flop", level |-> "High", next |-> "Green"]
    [] before = "Green"    -> [bank |-> "green_flop", level |-> "Low", next |-> "GreenOff"]

Other(f) == IF f = "red_flop" THEN "green_flop" ELSE "red_flop"

\* C18: an activate_next_string call makes one state transition, at its end,
\* and one clock pulse, on the bank and with the level of the table; the other
\* bank's lines and output and the pulsed bank's preset and clear stay as they were.
C18_OneTransition ==
  lastCall = "activate_next_string" =>
    LET t == Table(snap[1].active_string)
        o == Other(t.bank)
    IN /\ str_ctrl[o] = snap[1][o]
       /\ latch_q[o] = snap[2][o]
       /\ pulses[o] = 0
       /\ str_ctrl[t.bank].fpre_n = snap[1][t.bank].fpre_n
       /\ str_ctrl[t.bank].fclr_n = snap[1][t.bank].fclr_n
       /\ spc.op # "idle" => str_ctrl.active_string = snap[1].active_string
       /\ spc.op = "idle" =>
            /\ str_ctrl.active_string = t.next
            /\ pulses[t.bank] = 1
            /\ latch_q[t.bank] = t.level

C18_Witness ==
  /\ spc.op = "idle"
  /\ lastCall = "activate_next_string"
  /\ snap[1].active_string = "Green"
  /\ str_ctrl.active_string = "GreenOff"
  /\ snap[2].green_flop = "High" /\ latch_q.green_flop = "Low"

\* main() is suspended in the loop's Timer::after_secs(LED_CYCLE_SECS).await.
BetweenTicks == mpc.stmt = "sleep" /\ mpc.i \in {2, 3}

\* C20: between ticks the red latch output is high exactly in state Red and
\* the green one exactly in state Green, so never both.
C20_OutputsMatchState ==
  BetweenTicks =>
    /\ latch_q.red_flop = "High" <=> str_ctrl.active_string = "Red"
    /\ latch_q.green_flop = "High" <=> str_ctrl.active_string = "Green"
    /\ ~(latch_q.red_flop = "High" /\ latch_q.green_flop = "High")

C20_Witness ==
  /\ BetweenTicks
  /\ str_ctrl.active_string = "Green"
  /\ latch_q.green_flop = "High" /\ latch_q.red_flop = "Low"
  /\ tpc.stmt = "power_transition"

\* Every phase of the cycle is the sequencer's state again and again.
AllPhasesForever == \A ph \in {Cycle[k] : k \in 1..CycleLen} : []<>(str_ctrl.active_string = ph)

\* Neither loop is ever left: main stays in its tick loop, the task in its
\* wait / power_transition loop.
LoopsClosed ==
  /\ mpc.stmt \in {"activate_next_string", "sleep"}
       => mpc'.stmt \in {"activate_next_string", "sleep"}
  /\ tpc.stmt \in {"wait", "power_transition"}
       => tpc'.stmt \in {"wait", "power_transition"}

\* No PVD handler run is pending or in progress.
NoInterrupt == hpc = "idle" /\ ~regs.exti_pr

\* power_monitor_task is not the task being polled, and no handler runs.
TaskYielded == running # "pwr" /\ hpc = "idle"

\* C19, as stated: with a fair timer tick every phase of the cycle is reached
\* infinitely often, whatever the PVD interrupts and the task's wake-ups do.
C19_Original == AllPhasesForever

\* C19, amended: neither loop is ever left, and every phase of the cycle is
\* reached infinitely often (a) whenever the PVD interrupts eventually cease,
\* and (b) whenever main's code is not preempted for ever by handler runs and
\* power_monitor_task again and again yields to the executor. A handler that
\* is re-entered back to back for ever, or a task that finds a new value at
\* every wait(), keeps the tick loop from running.
C19_Amended ==
  /\ [][LoopsClosed]_vars
  /\ (<>[]NoInterrupt) => AllPhasesForever
  /\ (SF_vars(MainStep) /\ []<>TaskYielded) => AllPhasesForever

\* A full cycle has been ticked through with the system on the backup battery
\* after a failover.
C19_Witness ==
  /\ BetweenTicks
  /\ ticks = 0
  /\ lastCall = "activate_next_string"
  /\ str_ctrl.active_string = "GreenOff"
  /\ pwr_ctrl.state = "BackupPower"
  /\ tpc.stmt = "wait"

\* The PVD handler has read a low comparator bit while the controller is in
\* state MainPower, and is about to publish it.
LowReadInMain == hpc = "signal" /\ irq_voltage_low /\ pwr_ctrl.state = "MainPower"

\* power_monitor_task has taken a low value from PVD_SIGNAL in state MainPower.
LowTakenInMain ==
  tpc.stmt = "power_transition" /\ voltage_low /\ pwr_ctrl.state = "MainPower"

\* The PVD handler has read a recovered comparator bit.
RecoveredRead == hpc = "signal" /\ ~irq_voltage_low

OnBackup == pwr_ctrl.state = "BackupPower" /\ Asserted("backup_power_n")

\* The tasks are scheduled fairly: neither main's nor power_monitor_task's
\* code is preempted for ever.
TasksScheduled == SF_vars(MainStep) /\ SF_vars(LiveTaskStep)

C15_Steps ==
  /\ (hpc = "idle" /\ hpc' # "idle") => (hpc' = "read" /\ ~regs'.exti_pr)
  /\ (hpc = "read" /\ hpc' # "read") =>
       /\ hpc' = "signal"
       /\ irq_voltage_low' = PVDO(regs, vdd_low)
       /\ PVD_SIGNAL' = PVD_SIGNAL
  /\ (hpc = "signal" /\ hpc' # "signal") =>
       /\ hpc' = "idle"
       /\ PVD_SIGNAL' = << [val |-> irq_voltage_low, id |-> 1] >>
  /\ hpc # "idle" =>
       /\ UNCHANGED <<running, tpc, voltage_low, pwr_ctrl, spc, str_ctrl>>
       /\ mpc'.stmt = mpc.stmt
       /\ (hpc' = hpc => PVD_SIGNAL' = PVD_SIGNAL)
       /\ (vdd_low' # vdd_low => regs'.exti_pr)

\* The handler never blocks: its next statement can always be executed.
C15_NeverBlocks ==
  /\ hpc = "read" => ENABLED PVD_read
  /\ hpc = "signal" => ENABLED LivePVD_signal

\* With the handler idle and the line not pending, an unconsumed published
\* value is the present level of the comparator.
C15_LevelPublished ==
  (hpc = "idle" /\ ~regs.exti_pr /\ PVD_SIGNAL # << >>) =>
    PVD_SIGNAL[1].val = PVDO(regs, vdd_low)

\* C15: every run of the PVD handler clears the pending flag, then reads the
\* comparator bit, then publishes it, overwriting any unconsumed value; it
\* runs to completion without blocking; a crossing after the clear re-pends
\* the interrupt, a later handler run follows, and the value left in
\* PVD_SIGNAL once nothing is pending is the level after the crossing.
C15_HandlerRun ==
  /\ [][C15_Steps]_vars
  /\ [](C15_NeverBlocks /\ C15_LevelPublished)
  /\ (hpc # "idle" /\ regs.exti_pr) ~> (hpc = "read" /\ ~regs.exti_pr)

\* The supply crossed the threshold after the handler read the comparator:
\* the line is pending again while the handler is about to overwrite an
\* unconsumed value with the level it read before the crossing.
C15_Witness ==
  /\ hpc = "signal"
  /\ regs.exti_pr
  /\ irq_voltage_low # PVDO(regs, vdd_low)
  /\ PVD_SIGNAL # << >>
  /\ PVD_SIGNAL[1].val # irq_voltage_low

\* C21: whenever power_monitor_task is at PVD_SIGNAL.wait() (it is spawned
\* after init_main_power has returned), exactly one enable line is asserted
\* and it is the one of the recorded state: MainPower iff main asserted and
\* backup de-asserted, BackupPower iff backup asserted and main de-asserted.
C21_OneLineMatchesState ==
  tpc.stmt = "wait" =>
    /\ Done("init_main_power")
    /\ pwr_ctrl.state \in {"MainPower", "BackupPower"}
    /\ pwr_ctrl.state = "MainPower"
         <=> (Asserted("main_power_n") /\ ~Asserted("backup_power_n"))
    /\ pwr_ctrl.state = "BackupPower"
         <=> (Asserted("backup_power_n") /\ ~Asserted("main_power_n"))

\* The task waits again after it has switched to the backup battery and back.
C21_Witness ==
  /\ tpc.stmt = "wait"
  /\ running = "idle"
  /\ nchanges = 2
  /\ pwr_ctrl.state = "MainPower"
  /\ Asserted("main_power_n") /\ ~Asserted("backup_power_n")

\* Number of PVD handler runs that published true (low voltage).
PublishedLow == Cardinality({k \in DOMAIN pvdReads : pvdReads[k]})

\* C22, as stated: the state has changed at most as often as a handler run
\* published true, and every change was caused by a low value that was
\* published since the previous change.
C22_Original ==
  /\ nchanges <= PublishedLow
  /\ \A k \in DOMAIN changes :
       /\ pvdReads[changes[k].id]
       /\ changes[k].id > (IF k = 1 THEN 0 ELSE changes[k - 1].reads)

\* C22, amended: the state has changed at most as often as a handler run
\* published true, and every change was caused by a low value of its own:
\* one that a handler run published before the change and after the value
\* that caused the previous change, and that wait() returned exactly once. The
\* value may have been published before the previous change took effect.
C22_Amended ==
  /\ nchanges = Len(changes)
  /\ nchanges <= PublishedLow
  /\ \A k \in DOMAIN changes :
       /\ changes[k].id \in 1..changes[k].reads
       /\ pvdReads[changes[k].id]
       /\ k > 1 => changes[k].id > changes[k - 1].id
       /\ Cardinality({j \in DOMAIN consumed : consumed[j].id = changes[k].id}) = 1

\* Two changes, the second caused by a low value that was published while
\* the power_transition of the first was still executing.
C22_Witness ==
  /\ Len(changes) = 2
  /\ changes[2].id <= changes[1].reads
  /\ pwr_ctrl.state = "MainPower"
  /\ tpc.stmt = "wait"

\* One step as it treats the preset and clear lines of the latches: the
\* Outputs are constructed with preset low and clear high; afterwards a line
\* changes only to high, only inside a StringController method, and preset is
\* raised only once clear is high.
C23_Steps ==
  \A f \in Flops :
    /\ (str_ctrl[f].fpre_n = Unconfigured /\ str_ctrl'[f].fpre_n # Unconfigured) =>
         (str_ctrl'[f].fpre_n = "Low" /\ str_ctrl'[f].fclr_n = "High")
    /\ \A line \in {"fpre_n", "fclr_n"} :
         (str_ctrl[f][line] # Unconfigured /\ str_ctrl'[f][line] # str_ctrl[f][line]) =>
           (str_ctrl'[f][line] = "High" /\ spc.op # "idle")
    /\ (str_ctrl[f].fpre_n = "Low" /\ str_ctrl'[f].fpre_n = "High") =>
         str_ctrl[f].fclr_n = "High"

\* C23: for each latch the active-low preset and clear lines are never both
\* low: they are constructed preset low and clear high, release_reset raises
\* clear and then preset, and no step drives either line low afterwards.
C23_NeverBothAsserted ==
  /\ [](\A f \in Flops : ~(str_ctrl[f].fpre_n = "Low" /\ str_ctrl[f].fclr_n = "Low"))
  /\ [][C23_Steps]_vars

\* reset() has released the red latch and not yet the green one.
C23_Witness ==
  /\ spc.op = "reset"
  /\ str_ctrl.red_flop.fpre_n = "High" /\ str_ctrl.red_flop.fclr_n = "High"
  /\ str_ctrl.green_flop.fpre_n = "Low" /\ str_ctrl.green_flop.fclr_n = "High"

====
